---- MODULE Spec2Model ----
(***************************************************************************)
(* A model of the three stages of the expression compiler:                 *)
(*   scan.rs      scan_file / scan_line / scan_token  (the lexer)          *)
(*   ast.rs       ASTNode::parse and its helpers      (the parser)         *)
(*   assembly.rs, assembly/assembly_writer_arm64.rs   (the code generator) *)
(* The lexer and the parser are pure functions and are modelled as         *)
(* operators applied by actions; the code generator is modelled step by    *)
(* step, its recursion over the AST unfolded into an explicit call stack.  *)
(*                                                                         *)
(* The output sink is taken to accept every write, so the io::Error paths   *)
(* of writeln! and flush are not taken.  The ASTs given to compile_ast are  *)
(* well-formed (Int leaves, operator nodes with two children), so neither   *)
(* the "Missing operand" expects nor the `_` arm of                         *)
(* generate_assembly_from_ast are reached; the ASTs that main takes from    *)
(* the parser may carry an Int on a node with children, which               *)
(* generate_assembly_from_ast compiles as a load.                           *)
(***************************************************************************)
EXTENDS Integers, Sequences, FiniteSets, TLC

VARIABLES
    \* ---- code generator (ARM64Writer) ----
    status,               \* position of compile_ast: "idle", "generate", "print",
                          \* "free", "epilogue", "flush", "ok" (returned Ok), "panic"
    ast,                  \* Option<ASTNode>: the argument of the running compile_ast
    stack,                \* frames of generate_assembly_from_ast, innermost last
    result_reg,           \* Option<RegisterList>: result_reg of compile_ast
    available_registers,  \* ARM64Writer.available_registers (a Vec used as a stack)
    out,                  \* lines written to writer.file, in order
    \* ---- parser (ASTNode::parse) ----
    tokens,               \* the Vec<Result<Token, TokenError>> given to parse
    parse_result,         \* Option<Result<ASTNode, ASTError>>
    \* ---- lexer (scan_file) ----
    lines,                \* the lines of the reader
    line_num,             \* scan_file's line_num
    scanned,              \* scan_file's tokens
    \* ---- callers of the generator ----
    calls                 \* the calls made on the generator so far, oldest first

vars == <<status, ast, stack, result_reg, available_registers, out,
          tokens, parse_result, lines, line_num, scanned, calls>>

genVars   == <<status, ast, stack, result_reg, available_registers, out>>
parseVars == <<tokens, parse_result>>
scanVars  == <<lines, line_num, scanned>>

----------------------------------------------------------------------------
(* Bounds of the model *)

\* largest number of operator nodes of an AST handed to compile_ast
MaxOps == 5

\* largest number of calls of allocate_register, free_register and
\* free_all_registers made on one generator
MaxCalls == 6

\* largest number of compile_ast calls made on one generator, and largest
\* number of operator nodes of the ASTs they are given
MaxCompiles == 2
MaxRepeatOps == 1

\* largest length of a token vector handed to the pipeline of main, and
\* largest number of operators of an expression Int (op Int)* handed to it
MaxPipelineTokens == 5
MaxChainOps == 4

\* largest length of a token vector handed to parse
MaxTokens == 5

\* the values of the Int tokens handed to parse
IntValues == {2, 3, 4}

\* largest length of a line given to scan_line on its own
MaxLineLen == 5

\* largest number of lines of a file given to scan_file
MaxLines == 2

\* largest length of a line of a file of several lines
MaxFileLineLen == 2

\* the characters of the generated lines
LineAlphabet == {" ", "+", "-", "*", "/", "0", "1", "2", "@"}
FileAlphabet == {" ", "+", "1", "@"}

\* scan.rs tests: the lines of test_scan_line_many_operations,
\* test_scan_line_with_whitespace and test_scan_line_with_error
ManyOperationsLine == <<"1", "+", "3", "-", "5", "*", "4", "4", "/", "6", "+", "4">>
WithWhitespaceLine ==
    <<" ", " ", " ", "4", "2", " ", " ", " ", " ", "*", " ", " ", " ", " ", "5", " ", " ", " ">>
WithErrorLine == <<"1", " ", "@", " ", "2">>

\* lines with literals at the limits of a 32-bit signed integer
BoundaryLines ==
    { <<"2", "1", "4", "7", "4", "8", "3", "6", "4", "7">>,
      <<"2", "1", "4", "7", "4", "8", "3", "6", "4", "8">>,
      <<"9", "-", "0", "0", "2", "1", "4", "7", "4", "8", "3", "6", "4", "7", "*", "3">>,
      <<"0", "0", "0", "0", "0", "0", "0", "0", "0", "0", "0", "1">>,
      <<"1", "+", "2", "1", "4", "7", "4", "8", "3", "6", "4", "8", "-", "3">>,
      <<"9", "9", "9", "9", "9", "9", "9", "9", "9", "9", "9", " ", "7">> }

\* lines of a file with a token on either side of an error, and without error
FileExampleLines == { <<"1", "@", "1">>, <<"1", "+", "1">> }

ExampleLines == {ManyOperationsLine, WithWhitespaceLine, WithErrorLine} \cup BoundaryLines

\* the lexical errors handed to parse
TokenErrors == {[line |-> 1, column |-> 0, character |-> "@"],
                [line |-> 2, column |-> 3, character |-> "#"]}

----------------------------------------------------------------------------
(* Option<T> is a sequence of length at most one *)

None == <<>>
Some(v) == <<v>>
IsSome(o) == Len(o) = 1
Unwrap(o) == o[1]

----------------------------------------------------------------------------
(* scan.rs: Token *)

PLUS     == [kind |-> "PLUS", val |-> 0]
MINUS    == [kind |-> "MINUS", val |-> 0]
ASTERISK == [kind |-> "ASTERISK", val |-> 0]
SLASH    == [kind |-> "SLASH", val |-> 0]
INT(n)   == [kind |-> "INT", val |-> n]

\* the two boundary tokens that ast.rs matches on; the lexer never produces them
EndOfLine == [kind |-> "EndOfLine", val |-> 0]
EndOfFile == [kind |-> "EndOfFile", val |-> 0]

Operators == {PLUS, MINUS, ASTERISK, SLASH}

\* scan.rs: TokenError
TokenError(line, column, character) ==
    [line |-> line, column |-> column, character |-> character]

\* Result<Token, TokenError>
OkToken(token) == [ok |-> TRUE, token |-> token]
ErrToken(token_error) == [ok |-> FALSE, error |-> token_error]

----------------------------------------------------------------------------
(* ast.rs: ASTNode *)

\* an ASTNode with both children absent, as make_leaf and the tests build it
LeafNode(operation) == [operation |-> operation, left |-> None, right |-> None]

\* an ASTNode with both children present, as ASTNode::new builds it
OpNode(operation, left, right) ==
    [operation |-> operation, left |-> Some(left), right |-> Some(right)]

\* the operator carried by the i-th operator node of a generated AST
OpAt(i) == <<PLUS, MINUS, ASTERISK, SLASH>>[(i % 4) + 1]

\* the well-formed ASTs with exactly n operator nodes: every shape of binary
\* tree, the Int leaves carrying first, first + 1, ... from left to right and
\* the operator nodes, in pre-order, carrying OpAt(opi), OpAt(opi + 1), ...
RECURSIVE TreesFrom(_, _, _)
TreesFrom(n, first, opi) ==
    IF n = 0
    THEN {LeafNode(INT(first))}
    ELSE UNION {{OpNode(OpAt(opi), l, r) :
                     l \in TreesFrom(k, first, opi + 1),
                     r \in TreesFrom(n - 1 - k, first + k + 1, opi + 1 + k)}
                : k \in 0 .. (n - 1)}

WellFormedASTs == UNION {TreesFrom(n, 1, opi) : n \in 0 .. MaxOps, opi \in 0 .. 3}

----------------------------------------------------------------------------
(* ast.rs: the parser.  The Peekable iterator over the token vector is the  *)
(* pair (toks, pos): pos is the index of the item next() would return, and  *)
(* the iterator is exhausted when pos > Len(toks).  Every parsing function  *)
(* returns its Result together with the position it leaves the iterator at. *)

\* ASTError
UnexpectedToken(token) == [kind |-> "UnexpectedToken", token |-> token]
LexicalError(token_error) == [kind |-> "LexicalError", token_error |-> token_error]
ExpectedOperator == [kind |-> "ExpectedOperator"]
ExpectedInteger == [kind |-> "ExpectedInteger"]
EmptyExpression == [kind |-> "EmptyExpression"]
InvalidLeafNode == [kind |-> "InvalidLeafNode"]

OkNode(node, pos) == [ok |-> TRUE, node |-> node, pos |-> pos]
ErrNode(error, pos) == [ok |-> FALSE, error |-> error, pos |-> pos]

\* ASTNode::new
new(operation, left, right, pos) ==
    IF operation.ok
    THEN OkNode(OpNode(operation.token, left, right), pos)
    ELSE ErrNode(LexicalError(operation.error), pos)

\* a make_leaf that accepts every token
make_leaf_any(operation, pos) == OkNode(LeafNode(operation), pos)

\* ASTNode::make_leaf
make_leaf(operation, pos) ==
    IF operation.kind = "INT"
    THEN OkNode(LeafNode(operation), pos)
    ELSE ErrNode(InvalidLeafNode, pos)

\* get_precedence with one level for the four operators
get_precedence_flat(token) ==
    CASE token \in {PLUS, MINUS, ASTERISK, SLASH} -> [ok |-> TRUE, precedence |-> 1]
      [] token \in {EndOfLine, EndOfFile}        -> [ok |-> FALSE, precedence |-> 0]
      [] OTHER                                   -> [ok |-> TRUE, precedence |-> 0]

\* get_precedence answering ExpectedOperator to every token but the four
\* operators
get_precedence_operators_only(token) ==
    CASE token \in {PLUS, MINUS}     -> [ok |-> TRUE, precedence |-> 1]
      [] token \in {ASTERISK, SLASH} -> [ok |-> TRUE, precedence |-> 2]
      [] OTHER                       -> [ok |-> FALSE, precedence |-> 0]

\* ASTNode::get_precedence
get_precedence(token) ==
    CASE token \in {PLUS, MINUS}         -> [ok |-> TRUE, precedence |-> 1]
      [] token \in {ASTERISK, SLASH}     -> [ok |-> TRUE, precedence |-> 2]
      [] token \in {EndOfLine, EndOfFile} -> [ok |-> FALSE, precedence |-> 0]
      [] OTHER                           -> [ok |-> TRUE, precedence |-> 0]

\* parse_primary reporting the end of the tokens as ExpectedInteger
parse_primary_expected_integer(toks, pos) ==
    IF pos > Len(toks)
    THEN ErrNode(ExpectedInteger, pos)
    ELSE IF ~toks[pos].ok
    THEN ErrNode(LexicalError(toks[pos].error), pos + 1)
    ELSE IF toks[pos].token.kind = "INT"
    THEN make_leaf(toks[pos].token, pos + 1)
    ELSE ErrNode(UnexpectedToken(toks[pos].token), pos + 1)

\* ASTNode::parse_primary
parse_primary(toks, pos) ==
    IF pos > Len(toks)
    THEN ErrNode(EmptyExpression, pos)
    ELSE IF ~toks[pos].ok
    THEN ErrNode(LexicalError(toks[pos].error), pos + 1)
    ELSE IF toks[pos].token.kind = "INT"
    THEN make_leaf(toks[pos].token, pos + 1)
    ELSE ErrNode(UnexpectedToken(toks[pos].token), pos + 1)

\* the statements after the loop without the check for an error token
HandleErrorToken_skipped(toks, pos, left) == OkNode(left, pos)

\* parse_one_line_expression after its loop: the check for an error token
HandleErrorToken(toks, pos, left) ==
    IF pos <= Len(toks) /\ ~toks[pos].ok
    THEN ErrNode(LexicalError(toks[pos].error), pos)
    ELSE OkNode(left, pos)

\* the right operand parsed at the operator's own precedence
RightMinPrecedence_same(precedence) == precedence

\* the min_precedence of the recursive call that parses the right operand
RightMinPrecedence(precedence) == precedence + 1

RECURSIVE parse_one_line_expression(_, _, _)
RECURSIVE ClimbLoop(_, _, _, _)

\* ASTNode::parse_one_line_expression: the while loop, with `left` the operand
\* built so far, followed by the statements after the loop
ClimbLoop(toks, pos, left, min_precedence) ==
    IF pos <= Len(toks) /\ toks[pos].ok
    THEN LET op == toks[pos].token
             prec == get_precedence(op)
         IN IF ~prec.ok
            THEN HandleErrorToken(toks, pos, left)
            ELSE IF prec.precedence < min_precedence
            THEN HandleErrorToken(toks, pos, left)
            ELSE LET right == parse_one_line_expression(toks, pos + 1,
                                              RightMinPrecedence(prec.precedence))
                 IN IF ~right.ok
                    THEN right
                    ELSE LET node == new(OkToken(op), left, right.node, right.pos)
                         IN IF ~node.ok
                            THEN node
                            ELSE ClimbLoop(toks, node.pos, node.node, min_precedence)
    ELSE HandleErrorToken(toks, pos, left)

\* ASTNode::parse_one_line_expression
parse_one_line_expression(toks, pos, min_precedence) ==
    LET left == parse_primary(toks, pos)
    IN IF ~left.ok
       THEN left
       ELSE ClimbLoop(toks, left.pos, left.node, min_precedence)

\* ASTNode::parse, with the position the iterator is dropped at
parse(toks) ==
    IF Len(toks) = 0
    THEN ErrNode(EmptyExpression, 1)
    ELSE parse_one_line_expression(toks, 1, 0)

\* i32 division, which truncates toward zero
TruncDiv(a, b) ==
    IF (a >= 0) = (b >= 0)
    THEN (IF a >= 0 THEN a ELSE -a) \div (IF b >= 0 THEN b ELSE -b)
    ELSE -((IF a >= 0 THEN a ELSE -a) \div (IF b >= 0 THEN b ELSE -b))

\* ASTNode::test_evaluate
RECURSIVE test_evaluate(_)
test_evaluate(node) ==
    IF node.operation.kind = "INT"
    THEN [ok |-> TRUE, value |-> node.operation.val]
    ELSE IF node.operation \in {EndOfFile, EndOfLine}
    THEN [ok |-> FALSE, error |-> UnexpectedToken(node.operation)]
    ELSE IF ~IsSome(node.left) \/ ~IsSome(node.right)
    THEN [ok |-> FALSE, error |-> ExpectedInteger]
    ELSE LET left == test_evaluate(Unwrap(node.left))
         IN IF ~left.ok
            THEN left
            ELSE LET right == test_evaluate(Unwrap(node.right))
                 IN IF ~right.ok
                    THEN right
                    ELSE CASE node.operation = PLUS ->
                                  [ok |-> TRUE, value |-> left.value + right.value]
                           [] node.operation = MINUS ->
                                  [ok |-> TRUE, value |-> left.value - right.value]
                           [] node.operation = ASTERISK ->
                                  [ok |-> TRUE, value |-> left.value * right.value]
                           [] node.operation = SLASH ->
                                  IF right.value = 0
                                  THEN [ok |-> FALSE, error |-> ExpectedInteger]
                                  ELSE [ok |-> TRUE,
                                        value |-> TruncDiv(left.value, right.value)]

\* the token vectors handed to parse: every sequence of at most MaxTokens
\* Int tokens, operator tokens and lexical errors
TokenAlphabet ==
    {OkToken(INT(n)) : n \in IntValues}
        \cup {OkToken(op) : op \in Operators}
        \cup {ErrToken(e) : e \in TokenErrors}

\* the sequences of at most n elements of S
SeqsUpTo(S, n) == UNION {[1 .. k -> S] : k \in 0 .. n}

TokenVectors == SeqsUpTo(TokenAlphabet, MaxTokens)

\* a caller hands `tokens` to ASTNode::parse
Parse ==
    /\ parse_result = None
    /\ parse_result' = Some(parse(tokens))
    /\ UNCHANGED tokens

----------------------------------------------------------------------------
(* scan.rs: the lexer.  A line is a sequence of characters; the iterator    *)
(* line.chars().enumerate().peekable() is the pair (line, pos), pos the     *)
(* index of the item next() would return, whose column is pos - 1.          *)

\* char::is_whitespace, on the characters of the model
IsWhitespace(ch) == ch \in {" ", "\t"}

\* '0'..='9', which is also char::is_digit(10)
DigitValue ==
    [ch \in {"0", "1", "2", "3", "4", "5", "6", "7", "8", "9"} |->
        CASE ch = "0" -> 0 [] ch = "1" -> 1 [] ch = "2" -> 2 [] ch = "3" -> 3
          [] ch = "4" -> 4 [] ch = "5" -> 5 [] ch = "6" -> 6 [] ch = "7" -> 7
          [] ch = "8" -> 8 [] ch = "9" -> 9]

IsDigit(ch) == ch \in DOMAIN DigitValue

\* i32::MAX
I32Max == 2147483647

\* str::parse::<i32> on a non-empty string of digits: the value is built
\* digit by digit with checked multiplication and addition, and any overflow
\* is an Err
RECURSIVE ParseI32From(_, _, _)
ParseI32From(number, i, acc) ==
    IF i > Len(number)
    THEN [ok |-> TRUE, value |-> acc]
    ELSE LET d == DigitValue[number[i]]
         IN IF acc > I32Max \div 10
            THEN [ok |-> FALSE, value |-> 0]
            ELSE IF acc * 10 > I32Max - d
            THEN [ok |-> FALSE, value |-> 0]
            ELSE ParseI32From(number, i + 1, acc * 10 + d)

\* a parse that saturates at the largest value instead of failing
ParseI32_saturating(number) ==
    IF ParseI32From(number, 1, 0).ok
    THEN ParseI32From(number, 1, 0)
    ELSE [ok |-> TRUE, value |-> I32Max]

ParseI32(number) == ParseI32From(number, 1, 0)

\* the loop stopping after at most one more digit
ConsumeDigits_once(line, pos) ==
    IF pos <= Len(line) /\ IsDigit(line[pos]) THEN pos + 1 ELSE pos

\* scan_token's while loop: the position of the iterator after the digits
\* that follow the current character have been consumed
RECURSIVE ConsumeDigits(_, _)
ConsumeDigits(line, pos) ==
    IF pos <= Len(line) /\ IsDigit(line[pos])
    THEN ConsumeDigits(line, pos + 1)
    ELSE pos

\* scan_token: current_char was taken from position pos - 1 of `line`; the
\* result is paired with the position the iterator is left at
scan_token(current_char, line, pos, line_no, column) ==
    CASE current_char = "+" -> [result |-> OkToken(PLUS), pos |-> pos]
      [] current_char = "-" -> [result |-> OkToken(MINUS), pos |-> pos]
      [] current_char = "*" -> [result |-> OkToken(ASTERISK), pos |-> pos]
      [] current_char = "/" -> [result |-> OkToken(SLASH), pos |-> pos]
      [] IsDigit(current_char) ->
            LET end == ConsumeDigits(line, pos)
                number == SubSeq(line, pos - 1, end - 1)
                num == ParseI32(number)
            IN [result |-> IF num.ok
                           THEN OkToken(INT(num.value))
                           ELSE ErrToken(TokenError(line_no, column, current_char)),
                pos |-> end]
      [] OTHER -> [result |-> ErrToken(TokenError(line_no, column, current_char)),
                   pos |-> pos]

\* scan_line stopping at the first lexical error of the line
RECURSIVE ScanLineFrom_abort(_, _, _)
ScanLineFrom_abort(line, pos, line_no) ==
    IF pos > Len(line)
    THEN <<>>
    ELSE IF IsWhitespace(line[pos])
    THEN ScanLineFrom_abort(line, pos + 1, line_no)
    ELSE LET token_result == scan_token(line[pos], line, pos + 1, line_no, pos - 1)
         IN IF token_result.result.ok
            THEN <<token_result.result>>
                     \o ScanLineFrom_abort(line, token_result.pos, line_no)
            ELSE <<token_result.result>>

\* scan_line, from position pos of the line on
RECURSIVE ScanLineFrom(_, _, _)
ScanLineFrom(line, pos, line_no) ==
    IF pos > Len(line)
    THEN <<>>
    ELSE IF IsWhitespace(line[pos])
    THEN ScanLineFrom(line, pos + 1, line_no)
    ELSE LET token_result == scan_token(line[pos], line, pos + 1, line_no, pos - 1)
         IN <<token_result.result>> \o ScanLineFrom(line, token_result.pos, line_no)

scan_line(line, line_no) == ScanLineFrom(line, 1, line_no)

\* scan_file: one iteration of the loop over reader.lines()
ScanFileLine ==
    /\ line_num <= Len(lines)
    /\ scanned' = scanned \o scan_line(lines[line_num], line_num)
    /\ line_num' = line_num + 1
    /\ UNCHANGED lines

\* the lines given to the lexer: every line of at most MaxLineLen characters
\* of LineAlphabet, and the lines of the tests of scan.rs
SourceLines == SeqsUpTo(LineAlphabet, MaxLineLen) \cup ExampleLines

\* the files given to scan_file: at most MaxLines lines, each of at most
\* MaxFileLineLen characters of FileAlphabet or one of FileExampleLines
SourceFiles ==
    SeqsUpTo(SeqsUpTo(FileAlphabet, MaxFileLineLen) \cup FileExampleLines, MaxLines)

----------------------------------------------------------------------------
(* assembly.rs: RegisterList, and the ARM64 writer *)

RegisterList == {"R0", "R1", "R2", "R3", "R4"}

\* ARM64Writer::new: the initial available_registers, R0 on top
NewRegisters == <<"R4", "R3", "R2", "R1", "R0">>

NumRegisters == Len(NewRegisters)

format_register(register) ==
    CASE register = "R0" -> "x0"
      [] register = "R1" -> "x1"
      [] register = "R2" -> "x2"
      [] register = "R3" -> "x3"
      [] register = "R4" -> "x4"

\* one line of output: a fixed text, or an instruction with its operands
Line(text) == [text |-> text, rd |-> "", rn |-> "", rm |-> "", imm |-> 0]
LoadLine(rd, value) == [text |-> "mov", rd |-> rd, rn |-> "", rm |-> "", imm |-> value]
\* an ALU line with its two source operands exchanged
AluLine_swapped(mnemonic, rd, rn, rm) ==
    [text |-> mnemonic, rd |-> rd, rn |-> rm, rm |-> rn, imm |-> 0]

AluLine(mnemonic, rd, rn, rm) ==
    [text |-> mnemonic, rd |-> rd, rn |-> rn, rm |-> rm, imm |-> 0]

\* the front of the Vec taken for its top
Top_front(pool) == pool[1]

\* Vec::pop and Vec::push on available_registers
Top(pool) == pool[Len(pool)]
\* a pop that leaves the register in the pool
Pop_keep(pool) == pool

Pop(pool) == SubSeq(pool, 1, Len(pool) - 1)
Push(pool, register) == Append(pool, register)

\* free_register without the push: the register is lost
free_register_lost(pool, register) == pool

\* free_register
free_register(pool, register) == Push(pool, register)

\* free_all_registers
free_all_registers == <<"R0", "R1", "R2", "R3", "R4">>

\* the lines of write_assembly_headers
AssemblyHeaders ==
    << Line("// Auto-generated ARM64 assembly"),
       Line(".arch arm64"),
       Line(".text"),
       Line(".global _main"),
       Line(".align 2"),
       Line(""),
       Line("_main:") >>

\* the lines of write_exit_syscall
ExitSyscall ==
    << Line(""),
       Line("    // Exit program"),
       LoadLine("x0", 0),
       LoadLine("x16", 1),
       Line("    svc #0x80            // Make system call") >>

\* the lines of print_register; the register argument is not used in them
print_register(register) ==
    << Line("    // Print register value"),
       LoadLine("x0", 1),
       LoadLine("x16", 4),
       Line("    svc #0x80") >>

\* the mnemonic written by add_/subtract_/multiply_/divide_registers
Mnemonic(operation) ==
    CASE operation = PLUS     -> "add"
      [] operation = MINUS    -> "sub"
      [] operation = ASTERISK -> "mul"
      [] operation = SLASH    -> "udiv"

----------------------------------------------------------------------------
(* generate_assembly_from_ast, one frame per active call *)

Frame(node) == [node |-> node, left_reg |-> None, right_reg |-> None]

TopFrame == stack[Len(stack)]

\* a call returns `register`: its frame is popped and the value becomes the
\* caller's left_reg or right_reg, or compile_ast's result_reg
Return(register) ==
    IF Len(stack) = 1
    THEN /\ stack' = <<>>
         /\ result_reg' = Some(register)
         /\ status' = "print"
    ELSE LET caller == stack[Len(stack) - 1]
             updated == IF ~IsSome(caller.left_reg)
                        THEN [caller EXCEPT !.left_reg = Some(register)]
                        ELSE [caller EXCEPT !.right_reg = Some(register)]
         IN /\ stack' = Append(SubSeq(stack, 1, Len(stack) - 2), updated)
            /\ result_reg' = result_reg
            /\ status' = status

\* compile_ast, up to the call of generate_assembly_from_ast on the root
CompileAst(node) ==
    /\ status = "idle"
    /\ ast' = Some(node)
    /\ out' = out \o AssemblyHeaders
    /\ stack' = <<Frame(node)>>
    /\ status' = "generate"
    /\ UNCHANGED <<result_reg, available_registers>>

\* the recursive call on node.left
GenerateLeft ==
    /\ status = "generate"
    /\ TopFrame.node.operation \in Operators
    /\ ~IsSome(TopFrame.left_reg)
    /\ stack' = Append(stack, Frame(Unwrap(TopFrame.node.left)))
    /\ UNCHANGED <<status, ast, result_reg, available_registers, out>>

\* the recursive call on node.right
GenerateRight ==
    /\ status = "generate"
    /\ TopFrame.node.operation \in Operators
    /\ IsSome(TopFrame.left_reg)
    /\ ~IsSome(TopFrame.right_reg)
    /\ stack' = Append(stack, Frame(Unwrap(TopFrame.node.right)))
    /\ UNCHANGED <<status, ast, result_reg, available_registers, out>>

\* load_register, called for an INT node
LoadRegister ==
    /\ status = "generate"
    /\ TopFrame.node.operation.kind = "INT"
    /\ Len(available_registers) > 0
    /\ LET register == Top(available_registers)
       IN /\ available_registers' = Pop(available_registers)
          /\ out' = Append(out, LoadLine(format_register(register),
                                         TopFrame.node.operation.val))
          /\ Return(register)
    /\ UNCHANGED ast

\* the common body of add_registers, subtract_registers, multiply_registers
\* and divide_registers
ArithRegisters(operation) ==
    /\ status = "generate"
    /\ TopFrame.node.operation = operation
    /\ IsSome(TopFrame.left_reg)
    /\ IsSome(TopFrame.right_reg)
    /\ Len(available_registers) > 0
    /\ LET reg_1 == Unwrap(TopFrame.left_reg)
           reg_2 == Unwrap(TopFrame.right_reg)
           result == Top(available_registers)
       IN /\ out' = Append(out, AluLine(Mnemonic(operation),
                                        format_register(result),
                                        format_register(reg_1),
                                        format_register(reg_2)))
          /\ available_registers' =
                 free_register(free_register(Pop(available_registers), reg_1), reg_2)
          /\ Return(result)
    /\ UNCHANGED ast

AddRegisters      == ArithRegisters(PLUS)
SubtractRegisters == ArithRegisters(MINUS)
MultiplyRegisters == ArithRegisters(ASTERISK)
DivideRegisters   == ArithRegisters(SLASH)

\* allocate_register on an empty pool: pop() is None and expect() panics
AllocatePanic ==
    /\ status = "generate"
    /\ \/ TopFrame.node.operation.kind = "INT"
       \/ IsSome(TopFrame.left_reg) /\ IsSome(TopFrame.right_reg)
    /\ Len(available_registers) = 0
    /\ status' = "panic"
    /\ UNCHANGED <<ast, stack, result_reg, available_registers, out>>

\* compile_ast: self.print_register(result_reg.clone())
PrintRegister ==
    /\ status = "print"
    /\ out' = out \o print_register(Unwrap(result_reg))
    /\ status' = "free"
    /\ UNCHANGED <<ast, stack, result_reg, available_registers>>

\* compile_ast: self.free_register(result_reg)
FreeResult ==
    /\ status = "free"
    /\ available_registers' = free_register(available_registers, Unwrap(result_reg))
    /\ status' = "epilogue"
    /\ UNCHANGED <<ast, stack, result_reg, out>>

\* compile_ast: the second self.write_assembly_headers() that follows the free
WriteEpilogue ==
    /\ status = "epilogue"
    /\ out' = out \o AssemblyHeaders
    /\ status' = "flush"
    /\ UNCHANGED <<ast, stack, result_reg, available_registers>>

\* compile_ast: flush and return Ok(())
Flush ==
    /\ status = "flush"
    /\ status' = "ok"
    /\ UNCHANGED <<ast, stack, result_reg, available_registers, out>>

GenInit ==
    /\ status = "idle"
    /\ ast = None
    /\ stack = <<>>
    /\ result_reg = None
    /\ available_registers = NewRegisters
    /\ out = <<>>

----------------------------------------------------------------------------
(* The register pool called directly, as test_register_allocation_and_free *)
(* does: allocate_register, free_register and free_all_registers in any     *)
(* order on a newly constructed generator.                                  *)

Call(op, register) == [op |-> op, register |-> register]

\* allocate_register on a pool that is not empty
AllocateRegister ==
    /\ status = "idle"
    /\ Len(calls) < MaxCalls
    /\ Len(available_registers) > 0
    /\ available_registers' = Pop(available_registers)
    /\ calls' = Append(calls, Call("allocate_register", Top(available_registers)))
    /\ UNCHANGED <<status, ast, stack, result_reg, out>>

\* allocate_register on an empty pool: pop() is None and expect() panics
AllocateRegisterPanic ==
    /\ status = "idle"
    /\ Len(calls) < MaxCalls
    /\ Len(available_registers) = 0
    /\ status' = "panic"
    /\ UNCHANGED <<ast, stack, result_reg, available_registers, out, calls>>

\* free_register(register); the register need not have been allocated
FreeRegister(register) ==
    /\ status = "idle"
    /\ Len(calls) < MaxCalls
    /\ available_registers' = free_register(available_registers, register)
    /\ calls' = Append(calls, Call("free_register", register))
    /\ UNCHANGED <<status, ast, stack, result_reg, out>>

\* free_all_registers()
FreeAllRegisters ==
    /\ status = "idle"
    /\ Len(calls) < MaxCalls
    /\ available_registers' = free_all_registers
    /\ calls' = Append(calls, Call("free_all_registers", ""))
    /\ UNCHANGED <<status, ast, stack, result_reg, out>>

----------------------------------------------------------------------------

\* test_nested_expression: (5 + 3) * 2
NestedExpression ==
    OpNode(ASTERISK, OpNode(PLUS, LeafNode(INT(5)), LeafNode(INT(3))),
           LeafNode(INT(2)))

\* the ASTs handed to compile_ast
CompileInputs == WellFormedASTs \cup {NestedExpression}

InitGen ==
    /\ GenInit
    /\ tokens = <<>> /\ parse_result = None
    /\ lines = <<>> /\ line_num = 1 /\ scanned = <<>>
    /\ calls = <<>>

NextGen ==
    \/ (\E node \in CompileInputs : CompileAst(node)) /\ UNCHANGED <<parseVars, scanVars, calls>>
    \/ GenerateLeft /\ UNCHANGED <<parseVars, scanVars, calls>>
    \/ GenerateRight /\ UNCHANGED <<parseVars, scanVars, calls>>
    \/ LoadRegister /\ UNCHANGED <<parseVars, scanVars, calls>>
    \/ AddRegisters /\ UNCHANGED <<parseVars, scanVars, calls>>
    \/ SubtractRegisters /\ UNCHANGED <<parseVars, scanVars, calls>>
    \/ MultiplyRegisters /\ UNCHANGED <<parseVars, scanVars, calls>>
    \/ DivideRegisters /\ UNCHANGED <<parseVars, scanVars, calls>>
    \/ AllocatePanic /\ UNCHANGED <<parseVars, scanVars, calls>>
    \/ PrintRegister /\ UNCHANGED <<parseVars, scanVars, calls>>
    \/ FreeResult /\ UNCHANGED <<parseVars, scanVars, calls>>
    \/ WriteEpilogue /\ UNCHANGED <<parseVars, scanVars, calls>>
    \/ Flush /\ UNCHANGED <<parseVars, scanVars, calls>>

SpecGen == InitGen /\ [][NextGen]_vars

----------------------------------------------------------------------------
(* compile_ast called more than once on one generator.  calls holds one    *)
(* record per completed call: its AST, the body lines it wrote and the     *)
(* index in out at which the body of the next call starts.                  *)

\* the index in out after which the body of the current call starts
BodyStart ==
    IF calls = <<>> THEN Len(AssemblyHeaders) ELSE calls[Len(calls)].start

\* the body lines of the call that has just returned Ok
ReturnedBody ==
    SubSeq(out, BodyStart + 1,
           Len(out) - Len(print_register(Unwrap(result_reg))) - Len(AssemblyHeaders))

\* a further compile_ast(node) after a call that returned Ok: the fields of
\* the generator are as the earlier call left them
CompileAstAgain(node) ==
    /\ status = "ok"
    /\ Len(calls) + 1 < MaxCompiles
    /\ calls' = Append(calls, [op |-> "compile_ast", node |-> Unwrap(ast),
                               code |-> ReturnedBody,
                               start |-> Len(out) + Len(AssemblyHeaders)])
    /\ ast' = Some(node)
    /\ out' = out \o AssemblyHeaders
    /\ stack' = <<Frame(node)>>
    /\ status' = "generate"
    /\ UNCHANGED <<result_reg, available_registers>>

\* 1 + (2 - (3 * (4 / 5))): the sixth allocation finds the pool empty
ExhaustingExpression ==
    OpNode(PLUS, LeafNode(INT(1)),
           OpNode(MINUS, LeafNode(INT(2)),
                  OpNode(ASTERISK, LeafNode(INT(3)),
                         OpNode(SLASH, LeafNode(INT(4)), LeafNode(INT(5))))))

RepeatInputs ==
    UNION {TreesFrom(n, 1, opi) : n \in 0 .. MaxRepeatOps, opi \in 0 .. 3}
        \cup {ExhaustingExpression}

InitRepeat == InitGen

NextRepeat ==
    \/ (\E node \in RepeatInputs : CompileAst(node))
           /\ UNCHANGED <<parseVars, scanVars, calls>>
    \/ (\E node \in RepeatInputs : CompileAstAgain(node))
           /\ UNCHANGED <<parseVars, scanVars>>
    \/ GenerateLeft /\ UNCHANGED <<parseVars, scanVars, calls>>
    \/ GenerateRight /\ UNCHANGED <<parseVars, scanVars, calls>>
    \/ LoadRegister /\ UNCHANGED <<parseVars, scanVars, calls>>
    \/ AddRegisters /\ UNCHANGED <<parseVars, scanVars, calls>>
    \/ SubtractRegisters /\ UNCHANGED <<parseVars, scanVars, calls>>
    \/ MultiplyRegisters /\ UNCHANGED <<parseVars, scanVars, calls>>
    \/ DivideRegisters /\ UNCHANGED <<parseVars, scanVars, calls>>
    \/ AllocatePanic /\ UNCHANGED <<parseVars, scanVars, calls>>
    \/ PrintRegister /\ UNCHANGED <<parseVars, scanVars, calls>>
    \/ FreeResult /\ UNCHANGED <<parseVars, scanVars, calls>>
    \/ WriteEpilogue /\ UNCHANGED <<parseVars, scanVars, calls>>
    \/ Flush /\ UNCHANGED <<parseVars, scanVars, calls>>

SpecRepeat == InitRepeat /\ [][NextRepeat]_vars

----------------------------------------------------------------------------
(* main.rs: the tokens are parsed, the Result is unwrapped and the AST is   *)
(* compiled by a new ARM64Writer.                                           *)

\* the expression Int (op Int)* with the operators ops
ChainOf(ops) ==
    [i \in 1 .. (2 * Len(ops) + 1) |->
        IF i % 2 = 1 THEN OkToken(INT(2)) ELSE OkToken(ops[i \div 2])]

PipelineAlphabet == {OkToken(INT(2))} \cup {OkToken(op) : op \in Operators}

\* the token vectors handed to the pipeline: every sequence of Int and
\* operator tokens up to MaxPipelineTokens, and every expression Int (op Int)*
\* up to MaxChainOps operators
PipelineTokens ==
    SeqsUpTo(PipelineAlphabet, MaxPipelineTokens)
        \cup {ChainOf(ops) : ops \in SeqsUpTo(Operators, MaxChainOps)}

\* main: ASTNode::parse(tokens).unwrap() on an Err
UnwrapPanic ==
    /\ status = "idle"
    /\ IsSome(parse_result)
    /\ ~Unwrap(parse_result).ok
    /\ status' = "unwrap_panic"
    /\ UNCHANGED <<ast, stack, result_reg, available_registers, out>>

\* main: writer.compile_ast(&ast) on the unwrapped AST
CompileParsed ==
    /\ IsSome(parse_result)
    /\ Unwrap(parse_result).ok
    /\ CompileAst(Unwrap(parse_result).node)

InitPipeline ==
    /\ GenInit
    /\ tokens \in PipelineTokens /\ parse_result = None
    /\ lines = <<>> /\ line_num = 1 /\ scanned = <<>>
    /\ calls = <<>>

\* the steps of the pipeline.  The panic of allocate_register is left out:
\* its guard, AllocateOnEmptyPool, is what C19 shows unreachable here.
NextPipeline ==
    \/ Parse /\ UNCHANGED <<genVars, scanVars, calls>>
    \/ UnwrapPanic /\ UNCHANGED <<parseVars, scanVars, calls>>
    \/ CompileParsed /\ UNCHANGED <<parseVars, scanVars, calls>>
    \/ GenerateLeft /\ UNCHANGED <<parseVars, scanVars, calls>>
    \/ GenerateRight /\ UNCHANGED <<parseVars, scanVars, calls>>
    \/ LoadRegister /\ UNCHANGED <<parseVars, scanVars, calls>>
    \/ AddRegisters /\ UNCHANGED <<parseVars, scanVars, calls>>
    \/ SubtractRegisters /\ UNCHANGED <<parseVars, scanVars, calls>>
    \/ MultiplyRegisters /\ UNCHANGED <<parseVars, scanVars, calls>>
    \/ DivideRegisters /\ UNCHANGED <<parseVars, scanVars, calls>>
    \/ PrintRegister /\ UNCHANGED <<parseVars, scanVars, calls>>
    \/ FreeResult /\ UNCHANGED <<parseVars, scanVars, calls>>
    \/ WriteEpilogue /\ UNCHANGED <<parseVars, scanVars, calls>>
    \/ Flush /\ UNCHANGED <<parseVars, scanVars, calls>>

SpecPipeline == InitPipeline /\ [][NextPipeline]_vars

InitPool == InitGen

NextPool ==
    \/ AllocateRegister /\ UNCHANGED <<parseVars, scanVars>>
    \/ AllocateRegisterPanic /\ UNCHANGED <<parseVars, scanVars>>
    \/ (\E register \in RegisterList : FreeRegister(register))
           /\ UNCHANGED <<parseVars, scanVars>>
    \/ FreeAllRegisters /\ UNCHANGED <<parseVars, scanVars>>

SpecPool == InitPool /\ [][NextPool]_vars

InitParse ==
    /\ GenInit
    /\ tokens \in TokenVectors /\ parse_result = None
    /\ lines = <<>> /\ line_num = 1 /\ scanned = <<>>
    /\ calls = <<>>

NextParse == Parse /\ UNCHANGED <<genVars, scanVars, calls>>

SpecParse == InitParse /\ [][NextParse]_vars

\* scan_file on a reader of one line of SourceLines, or of the lines of a
\* file of SourceFiles
InitScan ==
    /\ GenInit
    /\ tokens = <<>> /\ parse_result = None
    /\ lines \in SourceFiles \cup {<<line>> : line \in SourceLines}
    /\ line_num = 1 /\ scanned = <<>>
    /\ calls = <<>>

NextScan == ScanFileLine /\ UNCHANGED <<genVars, parseVars, calls>>

SpecScan == InitScan /\ [][NextScan]_vars

----------------------------------------------------------------------------
(* Properties of the code generator, checked under SpecGen *)

\* the set of registers held by a pool
PoolSet(pool) == {pool[i] : i \in 1 .. Len(pool)}

\* C1: register round-trip.  Once compile_ast has returned Ok for a
\* well-formed AST, the pool holds five registers again, each of the five
\* once: every register allocated during the compile has been freed.
C1_RegisterRoundTrip ==
    status = "ok" =>
        /\ Len(available_registers) = NumRegisters
        /\ PoolSet(available_registers) = RegisterList

\* a compile of an AST with an operator node has returned Ok
C1_Witness ==
    /\ status = "ok"
    /\ Unwrap(ast).operation \in Operators
    /\ Len(out) > Len(AssemblyHeaders)

\* generate_assembly_from_ast is about to call allocate_register, through
\* load_register or one of the four arithmetic functions, on an empty pool
AllocateOnEmptyPool ==
    /\ status = "generate"
    /\ \/ TopFrame.node.operation.kind = "INT"
       \/ IsSome(TopFrame.left_reg) /\ IsSome(TopFrame.right_reg)
    /\ Len(available_registers) = 0

\* C2: register exhaustion is a reported error.  A call of allocate_register
\* on an empty pool makes compile_ast return a RegisterExhausted error; the
\* compile never panics.
C2_ExhaustionReported ==
    [][AllocateOnEmptyPool => status' = "RegisterExhausted"]_vars

\* the lines of a body: register-immediate loads and three-operand ALU lines
\* over the names of the five registers
RegisterNames == {format_register(r) : r \in RegisterList}

IsBodyLine(line) ==
    \/ line.text = "mov" /\ line.rd \in RegisterNames
    \/ /\ line.text \in {"add", "sub", "mul", "udiv"}
       /\ line.rd \in RegisterNames
       /\ line.rn \in RegisterNames
       /\ line.rm \in RegisterNames

\* C3: the order of emission.  The output of a successful compile_ast is the
\* prologue, then the body's instruction lines, then the print-result block,
\* then the exit block, each once; the exit block is last and no prologue
\* line follows the body.
C3_EmissionOrder ==
    status = "ok" =>
        LET n == Len(out)
            h == Len(AssemblyHeaders)
            p == Len(print_register(Unwrap(result_reg)))
            e == Len(ExitSyscall)
        IN /\ n > h + p + e
           /\ SubSeq(out, 1, h) = AssemblyHeaders
           /\ \A i \in (h + 1) .. (n - p - e) : IsBodyLine(out[i])
           /\ SubSeq(out, n - p - e + 1, n - e) = print_register(Unwrap(result_reg))
           /\ SubSeq(out, n - e + 1, n) = ExitSyscall

\* the registers named by the operands of a line
OperandsOf(line) == {line.rd, line.rn, line.rm} \ {""}

\* C4: the print-result block references the final result register.  When
\* the print block has been written, the register returned for the root node
\* is an operand of one of its lines.
C4_PrintReferencesResult ==
    status = "free" =>
        \E i \in 1 .. Len(out) :
            /\ i > Len(out) - Len(print_register(Unwrap(result_reg)))
            /\ format_register(Unwrap(result_reg)) \in OperandsOf(out[i])

\* the lines written by generate_assembly_from_ast, once it has returned
Body == SubSeq(out, Len(AssemblyHeaders) + 1, Len(out))

RECURSIVE Size(_)
\* the number of nodes of a well-formed AST
Size(node) ==
    IF IsSome(node.left)
    THEN Size(Unwrap(node.left)) + Size(Unwrap(node.right)) + 1
    ELSE 1

Instruction(text, rd, rn, rm, imm) ==
    [text |-> text, rd |-> rd, rn |-> rn, rm |-> rm, imm |-> imm]

InstructionOf(operation) ==
    CASE operation.kind = "PLUS"     -> "add"
      [] operation.kind = "MINUS"    -> "sub"
      [] operation.kind = "ASTERISK" -> "mul"
      [] operation.kind = "SLASH"    -> "udiv"

RECURSIVE PostOrder(_, _)
\* `segment` is the post-order code of `node`: the code of the left subtree,
\* then the code of the right subtree, then the node's own instruction, whose
\* sources are the destinations of the last lines of the two subtrees
PostOrder(node, segment) ==
    /\ Len(segment) = Size(node)
    /\ LET own == segment[Len(segment)]
       IN IF node.operation.kind = "INT"
          THEN /\ own.rd \in RegisterNames
               /\ own = Instruction("mov", own.rd, "", "", node.operation.val)
          ELSE LET l == Size(Unwrap(node.left))
                   r == Size(Unwrap(node.right))
                   left_code == SubSeq(segment, 1, l)
                   right_code == SubSeq(segment, l + 1, l + r)
               IN /\ PostOrder(Unwrap(node.left), left_code)
                  /\ PostOrder(Unwrap(node.right), right_code)
                  /\ own.rd \in RegisterNames
                  /\ own = Instruction(InstructionOf(node.operation), own.rd,
                                       left_code[l].rd, right_code[r].rd, 0)
                  /\ own.rd \notin {left_code[l].rd, right_code[r].rd}

\* the instructions test_nested_expression expects for (5 + 3) * 2
NestedExpressionCode ==
    << Instruction("mov", "x0", "", "", 5),
       Instruction("mov", "x1", "", "", 3),
       Instruction("add", "x2", "x0", "x1", 0),
       Instruction("mov", "x1", "", "", 2),
       Instruction("mul", "x0", "x2", "x1", 0) >>

\* C12: post-order emission.  When generate_assembly_from_ast has returned
\* for a well-formed AST, the body holds one instruction per node, the left
\* subtree's before the right subtree's before the node's own; an Int(n) leaf
\* is a load of n, an operator node is add/sub/mul/udiv from the left and the
\* right subtree's registers into a register different from both, and the
\* register returned is the destination of the last line.  (5 + 3) * 2 gives
\* mov x0,#5; mov x1,#3; add x2,x0,x1; mov x1,#2; mul x0,x2,x1.
C12_PostOrderEmission ==
    status = "print" =>
        /\ PostOrder(Unwrap(ast), Body)
        /\ Body[Len(Body)].rd = format_register(Unwrap(result_reg))
        /\ Unwrap(ast) = NestedExpression => Body = NestedExpressionCode

\* generate_assembly_from_ast has returned for (5 + 3) * 2
C12_Witness ==
    /\ status = "print"
    /\ Unwrap(ast) = NestedExpression
    /\ Len(Body) = 5

\* the registers that hold a value no instruction has consumed yet: those
\* returned to a call of generate_assembly_from_ast that is still active,
\* and the one returned to compile_ast until it is freed
RECURSIVE HeldFrom(_)
HeldFrom(i) ==
    IF i > Len(stack)
    THEN <<>>
    ELSE stack[i].left_reg \o stack[i].right_reg \o HeldFrom(i + 1)

LiveRegisters ==
    HeldFrom(1) \o (IF status \in {"print", "free"} THEN result_reg ELSE <<>>)

\* no body line writes a register whose value is still to be read: between
\* two writes of a register there is a line that reads it
NoClobber ==
    \A i \in 1 .. Len(Body) : \A j \in (i + 1) .. Len(Body) :
        Body[i].rd = Body[j].rd =>
            \E k \in (i + 1) .. (j - 1) : Body[i].rd \in {Body[k].rn, Body[k].rm}

\* C18: during code generation of a well-formed AST that does not exhaust the
\* pool, the pool holds no register twice, the pool and the registers that
\* hold a value not yet consumed are disjoint and together are the five
\* registers; no load or ALU line writes a register that still holds a value
\* a later line reads.
C18_PoolAndLivePartition ==
    status \in {"generate", "print", "free"} =>
        /\ Cardinality(PoolSet(available_registers)) = Len(available_registers)
        /\ Cardinality(PoolSet(LiveRegisters)) = Len(LiveRegisters)
        /\ PoolSet(available_registers) \cap PoolSet(LiveRegisters) = {}
        /\ PoolSet(available_registers) \cup PoolSet(LiveRegisters) = RegisterList
        /\ status \in {"generate", "print"} => NoClobber

\* four registers hold values and a register written before is written again
C18_Witness ==
    /\ status = "generate"
    /\ Len(LiveRegisters) = 4
    /\ Len(available_registers) = 1
    /\ \E i \in 1 .. Len(Body) : \E j \in (i + 1) .. Len(Body) :
           Body[i].rd = Body[j].rd

----------------------------------------------------------------------------
(* Properties of repeated compiles, checked under SpecRepeat *)

\* compile_ast has written the prologue and is about to generate the root
AtCompileStart == status = "generate" /\ stack = <<Frame(Unwrap(ast))>>

\* C14: the pool is initialized full at the start of each top-level compile.
\* Every compile_ast call on a generator, also one that follows an earlier
\* compile, begins with the five registers in the initial pool state, so a
\* compile of an AST compiled before writes the same instruction lines again.
C14_PoolFullAtCompileStart ==
    /\ AtCompileStart => available_registers = NewRegisters
    /\ status = "print" =>
           \A i \in 1 .. Len(calls) :
               calls[i].node = Unwrap(ast) =>
                   calls[i].code = SubSeq(out, BodyStart + 1, Len(out))

----------------------------------------------------------------------------
(* Properties of the parser, checked under SpecParse *)

IsIntToken(t) == t.ok /\ t.token.kind = "INT"
IsOperatorToken(t) == t.ok /\ t.token \in Operators

\* Int (op Int)*: Int tokens and operator tokens in turn, from an Int to an Int
WellFormedTokens(toks) ==
    /\ Len(toks) % 2 = 1
    /\ \A i \in 1 .. Len(toks) :
           IF i % 2 = 1 THEN IsIntToken(toks[i]) ELSE IsOperatorToken(toks[i])

\* no Plus or Minus node is a child of an Asterisk or Slash node
RECURSIVE PrecedenceRespected(_)
PrecedenceRespected(node) ==
    \/ ~IsSome(node.left) /\ ~IsSome(node.right)
    \/ /\ IsSome(node.left) /\ IsSome(node.right)
       /\ node.operation \in {ASTERISK, SLASH} =>
              /\ Unwrap(node.left).operation \notin {PLUS, MINUS}
              /\ Unwrap(node.right).operation \notin {PLUS, MINUS}
       /\ PrecedenceRespected(Unwrap(node.left))
       /\ PrecedenceRespected(Unwrap(node.right))

TwoPlusThreeTimesFour ==
    <<OkToken(INT(2)), OkToken(PLUS), OkToken(INT(3)), OkToken(ASTERISK), OkToken(INT(4))>>

\* C5: precedence correctness.  For a token vector Int (op Int)* parse returns
\* an AST in which no Plus or Minus node is a child of an Asterisk or Slash
\* node, and the AST of 2 + 3 * 4 evaluates to 14.
C5_PrecedenceCorrect ==
    (IsSome(parse_result) /\ WellFormedTokens(tokens)) =>
        /\ Unwrap(parse_result).ok
        /\ PrecedenceRespected(Unwrap(parse_result).node)
        /\ tokens = TwoPlusThreeTimesFour =>
               test_evaluate(Unwrap(parse_result).node) = [ok |-> TRUE, value |-> 14]

\* 2 + 3 * 4 has been parsed
C5_Witness ==
    /\ IsSome(parse_result)
    /\ tokens = TwoPlusThreeTimesFour
    /\ Unwrap(parse_result).ok
    /\ Unwrap(parse_result).node.operation = PLUS

\* a op1 b op2 c with op1 and op2 of the same precedence
SamePrecedenceChain(toks) ==
    /\ Len(toks) = 5
    /\ WellFormedTokens(toks)
    /\ get_precedence(toks[2].token) = get_precedence(toks[4].token)

\* C6, as claimed: a op1 b op2 c with op1 and op2 of the same precedence is
\* parsed as a op1 (b op2 c), the grouping being right-to-left.
C6_RightToLeftGrouping ==
    (IsSome(parse_result) /\ SamePrecedenceChain(tokens)) =>
        /\ Unwrap(parse_result).ok
        /\ Unwrap(parse_result).node =
               OpNode(tokens[2].token,
                      LeafNode(tokens[1].token),
                      OpNode(tokens[4].token,
                             LeafNode(tokens[3].token),
                             LeafNode(tokens[5].token)))

\* C6, amended: a op1 b op2 c with op1 and op2 of the same precedence is
\* parsed as (a op1 b) op2 c, the grouping being left-to-right: the right
\* operand is parsed with min_precedence = precedence + 1, which leaves an
\* operator of the same precedence to the loop of the caller.
C6_LeftToRightGrouping ==
    (IsSome(parse_result) /\ SamePrecedenceChain(tokens)) =>
        /\ Unwrap(parse_result).ok
        /\ Unwrap(parse_result).node =
               OpNode(tokens[4].token,
                      OpNode(tokens[2].token,
                             LeafNode(tokens[1].token),
                             LeafNode(tokens[3].token)),
                      LeafNode(tokens[5].token))

\* 4 - 3 - 2 has been parsed
C6_Witness ==
    /\ IsSome(parse_result)
    /\ tokens = <<OkToken(INT(4)), OkToken(MINUS), OkToken(INT(3)),
                  OkToken(MINUS), OkToken(INT(2))>>
    /\ Unwrap(parse_result).ok

IsEmptyExpression(result) == ~result.ok /\ result.error = EmptyExpression

\* C9, as claimed: parse fails with EmptyExpression exactly when the token
\* vector is empty.
C9_EmptyExpressionOnlyIfEmpty ==
    IsSome(parse_result) =>
        (IsEmptyExpression(Unwrap(parse_result)) <=> tokens = <<>>)

\* the tokens end where an operand is required: Int tokens, each followed by
\* one more token that is not a lexical error
EndsBeforeOperand(toks) ==
    /\ Len(toks) % 2 = 0
    /\ \A i \in 1 .. Len(toks) :
           IF i % 2 = 1 THEN IsIntToken(toks[i]) ELSE toks[i].ok

\* C9, amended: parse fails with EmptyExpression when the token vector is
\* empty, and also when a non-empty vector ends where an operand is required
\* (Int 1, Plus); no other vector is reported as EmptyExpression.
C9_EmptyExpressionIffNoOperand ==
    IsSome(parse_result) =>
        (IsEmptyExpression(Unwrap(parse_result)) <=> EndsBeforeOperand(tokens))

\* a vector ending in an operator has been parsed and is reported as
\* EmptyExpression
C9_Witness ==
    /\ IsSome(parse_result)
    /\ Len(tokens) = 2
    /\ IsIntToken(tokens[1])
    /\ tokens[2] = OkToken(PLUS)
    /\ IsEmptyExpression(Unwrap(parse_result))

\* the index of the first lexical error of a token vector, 0 when there is none
FirstError(toks) ==
    IF \E i \in 1 .. Len(toks) : ~toks[i].ok
    THEN CHOOSE i \in 1 .. Len(toks) :
             ~toks[i].ok /\ \A j \in 1 .. (i - 1) : toks[j].ok
    ELSE 0

\* empty, Int (op Int)* or Int (op Int)* op
ValidPrefix(toks) ==
    \A i \in 1 .. Len(toks) :
        IF i % 2 = 1 THEN IsIntToken(toks[i]) ELSE IsOperatorToken(toks[i])

\* C10: lexical errors are fatal to parsing.  A token vector that holds a
\* lexical error is never parsed to Ok, and when the tokens before its first
\* error are a valid prefix of an expression, parse returns LexicalError with
\* that first error.
C10_LexicalErrorFatal ==
    (IsSome(parse_result) /\ FirstError(tokens) > 0) =>
        /\ ~Unwrap(parse_result).ok
        /\ ValidPrefix(SubSeq(tokens, 1, FirstError(tokens) - 1)) =>
               Unwrap(parse_result).error = LexicalError(tokens[FirstError(tokens)].error)

\* a vector has been parsed whose first error is met as a lookahead, after an
\* operand, and is followed by a different error
C10_Witness ==
    /\ IsSome(parse_result)
    /\ Len(tokens) >= 5
    /\ FirstError(tokens) = 4
    /\ ValidPrefix(SubSeq(tokens, 1, 3))
    /\ ~tokens[5].ok
    /\ tokens[5] # tokens[4]
    /\ Unwrap(parse_result).error = LexicalError(tokens[4].error)

RECURSIVE NoIntNodeWithChildren(_)
\* no node of the AST carries an Int operation and has a child
NoIntNodeWithChildren(node) ==
    /\ node.operation.kind = "INT" => (~IsSome(node.left) /\ ~IsSome(node.right))
    /\ IsSome(node.left) => NoIntNodeWithChildren(Unwrap(node.left))
    /\ IsSome(node.right) => NoIntNodeWithChildren(Unwrap(node.right))

\* C13: an Int token in operator position ends precedence climbing without
\* being consumed, at every min_precedence including 0, and is never the
\* operation of an internal node: no AST returned by parse contains an Int
\* node that has children.
C13_IntNeverInternal ==
    (IsSome(parse_result) /\ Unwrap(parse_result).ok) =>
        NoIntNodeWithChildren(Unwrap(parse_result).node)

RECURSIVE StructurallySound(_)
\* (a) a node without children carries an Int; (b) a node carrying Plus,
\* Minus, Asterisk or Slash has both children; and so for the nodes below
StructurallySound(node) ==
    /\ (~IsSome(node.left) /\ ~IsSome(node.right)) => node.operation.kind = "INT"
    /\ node.operation \in Operators => (IsSome(node.left) /\ IsSome(node.right))
    /\ IsSome(node.left) => StructurallySound(Unwrap(node.left))
    /\ IsSome(node.right) => StructurallySound(Unwrap(node.right))

\* the tokens of the vector that are not lexical errors
OkTokensOf(toks) == {toks[i].token : i \in {j \in 1 .. Len(toks) : toks[j].ok}}

\* C17: AST structural invariants.  In every AST returned by parse and in
\* every node built by make_leaf or ASTNode::new, a node with both children
\* absent carries an Int, make_leaf answering InvalidLeafNode to every other
\* token, and a node carrying Plus, Minus, Asterisk or Slash has both
\* children.
C17_StructuralInvariants ==
    IsSome(parse_result) =>
        /\ Unwrap(parse_result).ok => StructurallySound(Unwrap(parse_result).node)
        /\ \A t \in OkTokensOf(tokens) :
               IF t.kind = "INT"
               THEN /\ make_leaf(t, 1).ok
                    /\ StructurallySound(make_leaf(t, 1).node)
               ELSE make_leaf(t, 1) = ErrNode(InvalidLeafNode, 1)
        /\ Unwrap(parse_result).ok =>
               \A i \in 1 .. Len(tokens) :
                   LET built == new(tokens[i], Unwrap(parse_result).node,
                                    Unwrap(parse_result).node, 1)
                   IN built.ok => StructurallySound(built.node)

\* 2 * 3 has been parsed to an Asterisk node over two leaves, and make_leaf
\* has refused the Asterisk token
C17_Witness ==
    /\ IsSome(parse_result)
    /\ tokens = <<OkToken(INT(2)), OkToken(ASTERISK), OkToken(INT(3))>>
    /\ Unwrap(parse_result).ok
    /\ Unwrap(parse_result).node =
           OpNode(ASTERISK, LeafNode(INT(2)), LeafNode(INT(3)))
    /\ ~make_leaf(ASTERISK, 1).ok

RECURSIVE InOrder(_)
\* the in-order traversal of an AST: left subtree, operation, right subtree
InOrder(node) ==
    (IF IsSome(node.left) THEN InOrder(Unwrap(node.left)) ELSE <<>>)
        \o <<OkToken(node.operation)>>
        \o (IF IsSome(node.right) THEN InOrder(Unwrap(node.right)) ELSE <<>>)

\* C20: parse ignores no input.  Whenever parse returns Ok for a sequence of
\* Int, Plus, Minus, Asterisk and Slash tokens, every token has been consumed
\* and the in-order traversal of the AST is the input sequence: no trailing
\* token is dropped.
C20_ParseIgnoresNoInput ==
    (/\ IsSome(parse_result)
     /\ Unwrap(parse_result).ok
     /\ \A i \in 1 .. Len(tokens) : tokens[i].ok) =>
        /\ Unwrap(parse_result).pos = Len(tokens) + 1
        /\ InOrder(Unwrap(parse_result).node) = tokens

\* 2 * 3 4 2 has been parsed: the Int in operator position is in the AST
C20_Witness ==
    /\ IsSome(parse_result)
    /\ tokens = <<OkToken(INT(2)), OkToken(ASTERISK), OkToken(INT(3)),
                  OkToken(INT(4)), OkToken(INT(2))>>
    /\ Unwrap(parse_result).ok
    /\ Unwrap(parse_result).pos = 6
    /\ Unwrap(parse_result).node.operation = INT(4)

----------------------------------------------------------------------------
(* Properties of the pipeline of main, checked under SpecPipeline *)

\* the number of registers out of the pool
Allocated == NumRegisters - Len(available_registers)

\* generate_assembly_from_ast is about to call allocate_register, through
\* load_register or one of the four arithmetic functions
AllocateNext ==
    /\ status = "generate"
    /\ \/ TopFrame.node.operation.kind = "INT"
       \/ IsSome(TopFrame.left_reg) /\ IsSome(TopFrame.right_reg)

\* C19: the pipeline parser-then-generator never runs out of registers.  For
\* every AST parse returns from Int, Plus, Minus, Asterisk and Slash tokens,
\* compile_ast on a new generator never calls allocate_register on an empty
\* pool, and at most four of the five registers are allocated at a time,
\* the destination of an arithmetic function counted with its operands.
C19_PipelineNeverExhausts ==
    /\ ~AllocateOnEmptyPool
    /\ Allocated <= 4
    /\ AllocateNext => Allocated + 1 <= 4

\* 2 + 2 * 2 - 2: multiply_registers is about to allocate a fourth register
C19_Witness ==
    /\ tokens = ChainOf(<<PLUS, ASTERISK, MINUS>>)
    /\ AllocateNext
    /\ TopFrame.node.operation = ASTERISK
    /\ Allocated = 3

----------------------------------------------------------------------------
(* Properties of the lexer, checked under SpecScan *)

OperatorChars == {"+", "-", "*", "/"}

\* a character that is not whitespace, a digit or an operator character
IsBadChar(ch) == ~IsWhitespace(ch) /\ ~IsDigit(ch) /\ ch \notin OperatorChars

\* the index of the first bad character of a line, 0 when there is none
FirstBadChar(line) ==
    IF \E i \in 1 .. Len(line) : IsBadChar(line[i])
    THEN CHOOSE i \in 1 .. Len(line) :
             IsBadChar(line[i]) /\ \A j \in 1 .. (i - 1) : ~IsBadChar(line[j])
    ELSE 0

\* token results with the columns of their errors moved right by offset
ShiftColumns(toks, offset) ==
    [i \in 1 .. Len(toks) |->
        IF toks[i].ok
        THEN toks[i]
        ELSE ErrToken(TokenError(toks[i].error.line,
                                 toks[i].error.column + offset,
                                 toks[i].error.character))]

\* what a line yields when each bad character yields one error, with its
\* line, its zero-based column and itself, between the tokens of the text
\* before it and the tokens of the text after it
RECURSIVE Isolated(_, _)
Isolated(line, line_no) ==
    LET i == FirstBadChar(line)
    IN IF i = 0
       THEN scan_line(line, line_no)
       ELSE scan_line(SubSeq(line, 1, i - 1), line_no)
                \o <<ErrToken(TokenError(line_no, i - 1, line[i]))>>
                \o ShiftColumns(Isolated(SubSeq(line, i + 1, Len(line)), line_no), i)

\* the results of the first n lines of a file, the first line being line 1
RECURSIVE IsolatedOfFile(_, _)
IsolatedOfFile(file, n) ==
    IF n = 0
    THEN <<>>
    ELSE IsolatedOfFile(file, n - 1) \o Isolated(file[n], n)

\* C7: lexer error isolation with exact position.  Every bad character of a
\* scanned line yields exactly one error carrying the number of its line
\* (from 1), its zero-based column and the character; the tokens before and
\* after it, on its line and on the other lines, are produced in order as
\* they are without it.
C7_ErrorIsolation ==
    /\ scanned = IsolatedOfFile(lines, line_num - 1)
    /\ (line_num = 2 /\ lines[1] = WithErrorLine) =>
           scanned = <<OkToken(INT(1)), ErrToken(TokenError(1, 2, "@")), OkToken(INT(2))>>

\* a file has been scanned whose second line holds a bad character between
\* two tokens
C7_Witness ==
    /\ line_num = 3
    /\ lines = << <<"1", "+", "1">>, <<"1", "@", "1">> >>
    /\ Len(scanned) = 6
    /\ scanned[5] = ErrToken(TokenError(2, 1, "@"))
    /\ scanned[6] = OkToken(INT(1))

\* a line made only of digits, operator characters and whitespace
CleanLine(line) ==
    \A i \in 1 .. Len(line) :
        IsWhitespace(line[i]) \/ IsDigit(line[i]) \/ line[i] \in OperatorChars

\* position i opens a maximal run of digits
OpensRun(line, i) ==
    IsDigit(line[i]) /\ (i = 1 \/ ~IsDigit(line[i - 1]))

\* the last position of the maximal run of digits opened at position i
RunEnd(line, i) ==
    CHOOSE j \in i .. Len(line) :
        /\ \A k \in i .. j : IsDigit(line[k])
        /\ j = Len(line) \/ ~IsDigit(line[j + 1])

\* the digits of a run without its leading zeros
RECURSIVE Significant(_)
Significant(digits) ==
    IF Len(digits) > 0 /\ digits[1] = "0" THEN Significant(Tail(digits)) ELSE digits

\* digits a <= digits b, for two strings of digits of the same length
RECURSIVE DigitsLeq(_, _)
DigitsLeq(a, b) ==
    IF Len(a) = 0
    THEN TRUE
    ELSE IF DigitValue[a[1]] # DigitValue[b[1]]
    THEN DigitValue[a[1]] < DigitValue[b[1]]
    ELSE DigitsLeq(Tail(a), Tail(b))

I32MaxDigits == <<"2", "1", "4", "7", "4", "8", "3", "6", "4", "7">>

\* the run of digits fits in a 32-bit signed integer
RunFits(digits) ==
    LET sig == Significant(digits)
    IN \/ Len(sig) < Len(I32MaxDigits)
       \/ Len(sig) = Len(I32MaxDigits) /\ DigitsLeq(sig, I32MaxDigits)

RECURSIVE PowerOfTen(_)
PowerOfTen(n) == IF n = 0 THEN 1 ELSE 10 * PowerOfTen(n - 1)

\* the decimal value of a string of significant digits that fits
RECURSIVE DecimalValue(_)
DecimalValue(sig) ==
    IF Len(sig) = 0
    THEN 0
    ELSE DigitValue[sig[1]] * PowerOfTen(Len(sig) - 1) + DecimalValue(Tail(sig))

RunsFit(line) ==
    \A i \in 1 .. Len(line) :
        OpensRun(line, i) => RunFits(SubSeq(line, i, RunEnd(line, i)))

OperatorOf(ch) ==
    CASE ch = "+" -> PLUS [] ch = "-" -> MINUS [] ch = "*" -> ASTERISK [] ch = "/" -> SLASH

\* one token per operator character and per maximal run of digits, by position
RECURSIVE MunchedFrom(_, _)
MunchedFrom(line, i) ==
    IF i > Len(line)
    THEN <<>>
    ELSE IF line[i] \in OperatorChars
    THEN <<OkToken(OperatorOf(line[i]))>> \o MunchedFrom(line, i + 1)
    ELSE IF OpensRun(line, i)
    THEN <<OkToken(INT(DecimalValue(Significant(SubSeq(line, i, RunEnd(line, i))))))>>
             \o MunchedFrom(line, i + 1)
    ELSE MunchedFrom(line, i + 1)

\* C8: maximal-munch tokenization.  A line of digits, operator characters and
\* whitespace whose runs of digits fit in a 32-bit signed integer yields, from
\* left to right, one operator token per operator character and one Int
\* token per maximal run of digits, with the run's decimal value, and nothing
\* for whitespace; "1+3-5*44/6+4" yields its 11 tokens.
C8_MaximalMunch ==
    (line_num = 2 /\ CleanLine(lines[1]) /\ RunsFit(lines[1])) =>
        /\ scanned = MunchedFrom(lines[1], 1)
        /\ lines[1] = ManyOperationsLine =>
               scanned = << OkToken(INT(1)), OkToken(PLUS), OkToken(INT(3)),
                            OkToken(MINUS), OkToken(INT(5)), OkToken(ASTERISK),
                            OkToken(INT(44)), OkToken(SLASH), OkToken(INT(6)),
                            OkToken(PLUS), OkToken(INT(4)) >>

\* "1+3-5*44/6+4" has been scanned to 11 tokens
C8_Witness ==
    /\ line_num = 2
    /\ lines[1] = ManyOperationsLine
    /\ Len(scanned) = 11
    /\ scanned[7] = OkToken(INT(44))

\* a scanned item without the line number of its error
WithoutLine(item) ==
    IF item.ok
    THEN item
    ELSE [ok |-> FALSE, column |-> item.error.column,
          character |-> item.error.character]

\* one item per operator character and per maximal run of digits, by
\* position: the Int token of the run's value when the run fits in a 32-bit
\* signed integer, else an error at the run's first digit
RECURSIVE ItemsFrom(_, _)
ItemsFrom(line, i) ==
    IF i > Len(line)
    THEN <<>>
    ELSE IF line[i] \in OperatorChars
    THEN <<OkToken(OperatorOf(line[i]))>> \o ItemsFrom(line, i + 1)
    ELSE IF OpensRun(line, i)
    THEN LET run == SubSeq(line, i, RunEnd(line, i))
         IN <<IF RunFits(run)
              THEN OkToken(INT(DecimalValue(Significant(run))))
              ELSE [ok |-> FALSE, column |-> i - 1, character |-> line[i]]>>
                \o ItemsFrom(line, RunEnd(line, i) + 1)
    ELSE ItemsFrom(line, i + 1)

OverflowLine ==
    <<"1", "+", "2", "1", "4", "7", "4", "8", "3", "6", "4", "8", "-", "3">>

\* C16: integer literal overflow.  A maximal run of digits whose value exceeds
\* 2147483647 yields exactly one item, an error whose column is the column of
\* the run's first digit and whose character is that digit; no Int token is
\* produced for a part of the run and scanning resumes after its last digit.
\* A run whose value is at most 2147483647 yields the Int token of the value.
C16_LiteralOverflow ==
    (line_num = 2 /\ CleanLine(lines[1])) =>
        [i \in 1 .. Len(scanned) |-> WithoutLine(scanned[i])] = ItemsFrom(lines[1], 1)

\* "1+2147483648-3" has been scanned: the run is one error at column 2 and
\* the scan has gone on with the minus sign
C16_Witness ==
    /\ line_num = 2
    /\ lines[1] = OverflowLine
    /\ Len(scanned) = 5
    /\ ~scanned[3].ok
    /\ scanned[3].error.column = 2
    /\ scanned[3].error.character = "2"
    /\ scanned[4] = OkToken(MINUS)
    /\ scanned[5] = OkToken(INT(3))

----------------------------------------------------------------------------
(* Properties of the register pool, checked under SpecPool *)

\* R0, R1, R2, R3, R4
RegisterOrder == <<"R0", "R1", "R2", "R3", "R4">>

IsAllocate(call) == call.op = "allocate_register"

\* C11: the pool is a stack with last-in-first-out reuse.  On a new generator
\* successive allocate_register calls return R0, R1, R2, R3, R4 in that
\* order, and an allocate_register that directly follows free_register(r)
\* returns r.
C11_LastInFirstOut ==
    /\ \A n \in 1 .. Len(calls) :
           (\A i \in 1 .. n : IsAllocate(calls[i])) =>
               /\ n <= Len(RegisterOrder)
               /\ calls[n].register = RegisterOrder[n]
    /\ \A n \in 2 .. Len(calls) :
           (calls[n - 1].op = "free_register" /\ IsAllocate(calls[n])) =>
               calls[n].register = calls[n - 1].register

\* the calls of test_register_allocation_and_free: three allocations, R1
\* freed and allocated again, and the last two registers allocated
C11_Witness ==
    /\ Len(calls) = 6
    /\ calls[3] = Call("allocate_register", "R2")
    /\ calls[4] = Call("free_register", "R1")
    /\ calls[5] = Call("allocate_register", "R1")
    /\ calls[6] = Call("allocate_register", "R3")
    /\ Len(available_registers) = 1

\* C15: free_all_registers resets the pool to its full initial state.  After
\* the call the pool holds each of the five registers once, in the order of
\* the pool of a new generator, so that the next allocation returns R0.
C15_FreeAllRestoresInitial ==
    (Len(calls) > 0 /\ calls[Len(calls)].op = "free_all_registers") =>
        /\ Len(available_registers) = NumRegisters
        /\ PoolSet(available_registers) = RegisterList
        /\ available_registers = NewRegisters
        /\ Top(available_registers) = "R0"

====
